---- MODULE Spec2Model ----
(***************************************************************************)
(* A model of StrategyCalculator (src/calculator.py): the calculator       *)
(* object, its scaling recurrence, its performance metrics, and the        *)
(* callers' sequences of calls on one calculator, and the reruns of the    *)
(* application (src/app.py) on the calculator of its session.              *)
(*                                                                         *)
(* Numbers.  P&L values, capital and balances are integers.  A float that  *)
(* may be fractional (the risk fraction, a rate, a mean) is the exact      *)
(* rational num/den with den > 0; the rounding error of binary floating    *)
(* point is not modelled.  Python's None and numpy's NaN are tagged        *)
(* records, as is every value that may be None.                            *)
(***************************************************************************)
EXTENDS Integers, Sequences, FiniteSets, TLC

VARIABLES
    original_data,     \* self.original_data
    scaled_data,       \* self.scaled_data
    max_loss,          \* self.max_loss
    starting_capital,  \* self.starting_capital
    risk_percentage,   \* self.risk_percentage
    ret,               \* what the most recent call returned or raised
    lastScale,         \* the most recent calculate_scaling call: arguments and outcome
    memo,              \* one earlier calculate_scaling call, kept for comparison
    data_loaded,          \* st.session_state.data_loaded
    calculations_done,    \* st.session_state.calculations_done
    last_csv_input,       \* st.session_state.last_csv_input
    trigger_calculation,  \* st.session_state.trigger_calculation
    sample_data_loaded,   \* st.session_state.sample_data_loaded
    displayed             \* what the most recent rerun put on the page

vars == <<original_data, scaled_data, max_loss, starting_capital,
          risk_percentage, ret, lastScale, memo, data_loaded,
          calculations_done, last_csv_input, trigger_calculation,
          sample_data_loaded, displayed>>

session == <<data_loaded, calculations_done, last_csv_input,
             trigger_calculation, sample_data_loaded, displayed>>

obj == <<original_data, scaled_data, max_loss, starting_capital, risk_percentage>>

-----------------------------------------------------------------------------
(* Bounds of the model.                                                    *)

\* longest series of the single-run specification SpecRun
MaxLen == 3
\* P&L values of SpecRun are -MaxPnL .. MaxPnL
MaxPnL == 2
\* longest series of the call-sequence specification Spec
MaxCallLen == 2
\* longest series of the call-sequence specification SpecPurity
MaxMemoLen == 1
\* longest series of the weekly specification SpecWeekly
MaxWeeklyLen == 3

-----------------------------------------------------------------------------
(* Values.                                                                 *)

None == [kind |-> "None"]
NaN == [kind |-> "NaN"]
Frac(n, d) == [kind |-> "float", num |-> n, den |-> d]
Float(n) == Frac(n, 1)
DataFrame(rows) == [kind |-> "DataFrame", rows |-> rows]
EmptyDict == [kind |-> "dict", empty |-> TRUE]

IsNone(v) == v.kind = "None"
IsFloat(v) == v.kind = "float"

Abs(n) == IF n < 0 THEN -n ELSE n

\* the sequences over S of length 0 .. n
SeqsUpTo(S, n) == UNION {[1..k -> S] : k \in 0..n}

\* frame[name]: one column of a frame
Column(rows, name) == [i \in 1..Len(rows) |-> rows[i][name]]

\* Series.sum()
RECURSIVE SeqSum(_)
SeqSum(s) == IF Len(s) = 0 THEN 0 ELSE s[1] + SeqSum(Tail(s))

SetMax(S) == CHOOSE m \in S : \A x \in S : x <= m
SetMin(S) == CHOOSE m \in S : \A x \in S : m <= x

\* Series.min() and Series.max() of a non-empty column
ColMin(s) == SetMin({s[i] : i \in 1..Len(s)})
ColMax(s) == SetMax({s[i] : i \in 1..Len(s)})

\* a parsed frame: one row per P&L value, sorted by date, index 0..n-1
MkData(pnls) == [i \in 1..Len(pnls) |-> [Date |-> i, PnL |-> pnls[i]]]

-----------------------------------------------------------------------------
(* abs(data['PnL'].min()): NaN on an empty column.                        *)

\* a variant: a max_loss the calculator already holds is kept
StaleMaxLoss(rows) ==
    IF IsFloat(max_loss) /\ max_loss.num # 0 THEN max_loss
    ELSE IF Len(rows) = 0 THEN NaN ELSE Float(Abs(ColMin(Column(rows, "PnL"))))

\* a variant: the greatest P&L is taken instead of the least
MaxLossOfGreatest(rows) ==
    IF Len(rows) = 0 THEN NaN ELSE Float(Abs(ColMax(Column(rows, "PnL"))))

\* self.max_loss = abs(data['PnL'].min())
MaxLossOf(rows) ==
    IF Len(rows) = 0 THEN NaN ELSE Float(Abs(ColMin(Column(rows, "PnL"))))

\* self.max_loss == 0 (False for NaN)
MaxLossIsZero(ml) == IsFloat(ml) /\ ml.num = 0

-----------------------------------------------------------------------------
(* The position size of one day: int(np.floor((capital * risk) / max_loss)) *)

\* a variant: int() without np.floor, which rounds toward zero
TruncPositionSize(current_capital, risk, ml) ==
    LET n == current_capital * risk.num
        d == risk.den * ml
    IN IF n >= 0 THEN n \div d ELSE -((-n) \div d)

\* a variant: np.ceil in place of np.floor
CeilPositionSize(current_capital, risk, ml) ==
    -((-(current_capital * risk.num)) \div (risk.den * ml))

\* np.floor rounds toward minus infinity, as \div does
PositionSize(current_capital, risk, ml) ==
    (current_capital * risk.num) \div (risk.den * ml)

\* result = data.copy() with the five new columns set to 0
InitResult(rows) ==
    [i \in 1..Len(rows) |->
        [Date |-> rows[i].Date, PnL |-> rows[i].PnL, StartingBR |-> 0,
         Position_Size |-> 0, Scaled_PnL |-> 0, EndingBR |-> 0,
         Cumulative_PnL |-> 0]]

\* a variant: every day is sized and started on the starting capital
StaticScaleDay(row, current_capital, capital, risk, ml) ==
    LET position_size == PositionSize(capital, risk, ml)
        scaled_pnl == row.PnL * position_size
    IN [row EXCEPT !.StartingBR = capital,
                   !.Position_Size = position_size,
                   !.Scaled_PnL = scaled_pnl,
                   !.EndingBR = current_capital + scaled_pnl,
                   !.Cumulative_PnL = current_capital + scaled_pnl - capital]

\* a variant: Cumulative_PnL holds the day's scaled P&L
DailyCumulativeScaleDay(row, current_capital, capital, risk, ml) ==
    LET position_size == PositionSize(current_capital, risk, ml)
        scaled_pnl == row.PnL * position_size
    IN [row EXCEPT !.StartingBR = current_capital,
                   !.Position_Size = position_size,
                   !.Scaled_PnL = scaled_pnl,
                   !.EndingBR = current_capital + scaled_pnl,
                   !.Cumulative_PnL = scaled_pnl]

\* a variant: EndingBR adds the day's P&L of one unit, not the scaled P&L
UnscaledEndingScaleDay(row, current_capital, capital, risk, ml) ==
    LET position_size == PositionSize(current_capital, risk, ml)
        scaled_pnl == row.PnL * position_size
    IN [row EXCEPT !.StartingBR = current_capital,
                   !.Position_Size = position_size,
                   !.Scaled_PnL = scaled_pnl,
                   !.EndingBR = current_capital + row.PnL,
                   !.Cumulative_PnL = current_capital + row.PnL - capital]

\* the loop body: the row of one day, entered with current_capital
ScaleDay(row, current_capital, capital, risk, ml) ==
    LET position_size == PositionSize(current_capital, risk, ml)
        scaled_pnl == row.PnL * position_size
    IN [row EXCEPT !.StartingBR = current_capital,
                   !.Position_Size = position_size,
                   !.Scaled_PnL = scaled_pnl,
                   !.EndingBR = current_capital + scaled_pnl,
                   !.Cumulative_PnL = current_capital + scaled_pnl - capital]

\* for i in range(len(result)): the passes from index i on; current_capital
\* is carried from one pass to the next (current_capital += scaled_pnl)
RECURSIVE ScaleLoop(_, _, _, _, _, _)
ScaleLoop(result, i, current_capital, capital, risk, ml) ==
    IF i > Len(result) THEN result
    ELSE LET row == ScaleDay(result[i], current_capital, capital, risk, ml)
         IN ScaleLoop([result EXCEPT ![i] = row], i + 1,
                      current_capital + row.Scaled_PnL, capital, risk, ml)

\* the frame calculate_scaling builds once max_loss is known not to be 0
ScaledRows(rows, capital, risk, ml) ==
    IF Len(rows) = 0 THEN InitResult(rows)
    ELSE ScaleLoop(InitResult(rows), 1, capital, capital, risk, ml.num)

-----------------------------------------------------------------------------
(* StrategyCalculator.__init__, and the session state of the application   *)
(* before its first rerun.  A string is the sequence of its lines.         *)

Str(lines) == [kind |-> "str", lines |-> lines]

\* the page without results: the welcome text, or nothing after a failure
Welcome == [kind |-> "welcome"]
Blank == [kind |-> "blank"]

NoCall == [op |-> "none", status |-> "none", value |-> None]

Init ==
    /\ original_data = None
    /\ scaled_data = None
    /\ max_loss = None
    /\ starting_capital = None
    /\ risk_percentage = None
    /\ ret = NoCall
    /\ lastScale = None
    /\ memo = None
    /\ data_loaded = FALSE
    /\ calculations_done = FALSE
    /\ last_csv_input = Str(<<>>)
    /\ trigger_calculation = FALSE
    /\ sample_data_loaded = None
    /\ displayed = Welcome

-----------------------------------------------------------------------------
(* StrategyCalculator.calculate_scaling(data, starting_capital,            *)
(* risk_percentage).  The three attributes and max_loss are assigned       *)
(* before the zero test; scaled_data only after the loop.                  *)

ScaleOutcome(rows, capital, risk, ml) ==
    IF MaxLossIsZero(ml)
    THEN [op |-> "calculate_scaling", status |-> "ValueError", value |-> None]
    ELSE [op |-> "calculate_scaling", status |-> "ok",
          value |-> DataFrame(ScaledRows(rows, capital, risk, ml))]

\* a variant: result = data, so that the loop writes into the caller's frame
AliasedInput(rows, result) == result

\* the caller's frame after the call: result = data.copy(), and the loop
\* writes to result only
InputAfterCall(rows, result) == rows

ScaleRecord(rows, capital, risk, out) ==
    [kind |-> "call", data |-> rows, capital |-> capital, risk |-> risk,
     prev_max_loss |-> max_loss, status |-> out.status, value |-> out.value,
     data_after |-> IF out.status = "ok"
                    THEN InputAfterCall(rows, out.value.rows) ELSE rows]

\* what the call does to the calculator
ScalingEffect(rows, capital, risk) ==
    LET ml == MaxLossOf(rows)
        out == ScaleOutcome(rows, capital, risk, ml)
    IN /\ starting_capital' = Float(capital)
       /\ risk_percentage' = risk
       /\ original_data' = DataFrame(rows)
       /\ max_loss' = ml
       /\ scaled_data' = IF out.status = "ok" THEN out.value ELSE scaled_data
       /\ lastScale' = ScaleRecord(rows, capital, risk, out)

calculate_scaling(rows, capital, risk) ==
    /\ ScalingEffect(rows, capital, risk)
    /\ ret' = ScaleOutcome(rows, capital, risk, MaxLossOf(rows))
    /\ UNCHANGED session

-----------------------------------------------------------------------------
(* Column arithmetic of calculate_performance_metrics.                     *)

\* Series.cumsum()
CumSum(s) == [i \in 1..Len(s) |-> SeqSum(SubSeq(s, 1, i))]

\* a variant: the running maximum starts from a baseline of 0
ZeroBasedExpandingMax(s) ==
    [i \in 1..Len(s) |-> SetMax({0} \cup {s[j] : j \in 1..i})]

\* Series.expanding().max(): the maximum of the values up to and including i
ExpandingMax(s) == [i \in 1..Len(s) |-> SetMax({s[j] : j \in 1..i})]

\* curve - curve.expanding().max()
Drawdown(curve) ==
    [i \in 1..Len(curve) |-> curve[i] - ExpandingMax(curve)[i]]

\* a variant: the drawdown reported as a magnitude
DrawdownMagnitude(curve) == Abs(ColMin(Drawdown(curve)))

\* (curve - curve.expanding().max()).min()
MaxDrawdown(curve) == ColMin(Drawdown(curve))

\* a variant: a day of value 0 counted as a win
NonNegatives(s) == SelectSeq(s, LAMBDA v : v >= 0)

\* the values of the rows with col > 0 and of those with col < 0
Wins(s) == SelectSeq(s, LAMBDA v : v > 0)
Losses(s) == SelectSeq(s, LAMBDA v : v < 0)

\* wins / len(frame) if len(frame) > 0 else 0
WinRate(s) == IF Len(s) > 0 THEN Frac(Len(Wins(s)), Len(s)) ELSE Float(0)

\* frame[frame[col] > 0][col].mean() if wins > 0 else 0
AvgWin(s) ==
    IF Len(Wins(s)) > 0 THEN Frac(SeqSum(Wins(s)), Len(Wins(s))) ELSE Float(0)

\* frame[frame[col] < 0][col].mean() if losses > 0 else 0
AvgLoss(s) ==
    IF Len(Losses(s)) > 0 THEN Frac(SeqSum(Losses(s)), Len(Losses(s)))
    ELSE Float(0)

\* the 'original' group of the report
OriginalMetrics(rows) ==
    LET pnl == Column(rows, "PnL")
    IN [total_pnl |-> SeqSum(pnl),
        win_rate |-> WinRate(pnl),
        avg_win |-> AvgWin(pnl),
        avg_loss |-> AvgLoss(pnl),
        max_drawdown |-> MaxDrawdown(CumSum(pnl)),
        total_trades |-> Len(rows)]

\* a variant: final_capital is the greatest ending balance and the return
\* is taken relative to it
PeakScaledMetrics(rows, capital) ==
    LET spnl == Column(rows, "Scaled_PnL")
        ending == Column(rows, "EndingBR")
        final == ColMax(ending)
        running_max == ExpandingMax(ending)
        mdd == MaxDrawdown(ending)
    IN [starting_capital |-> capital,
        final_capital |-> final,
        total_pnl |-> SeqSum(spnl),
        total_return_pct |->
            Frac((final - capital.num) * 100 * capital.den, capital.num),
        win_rate |-> WinRate(spnl),
        avg_win |-> AvgWin(spnl),
        avg_loss |-> AvgLoss(spnl),
        max_drawdown |-> mdd,
        max_drawdown_pct |->
            IF ColMax(running_max) > 0
            THEN Frac(mdd * 100, ColMax(running_max)) ELSE Float(0),
        total_trades |-> Len(rows)]

\* the 'scaled' group of the report; rows is not empty
ScaledMetrics(rows, capital) ==
    LET spnl == Column(rows, "Scaled_PnL")
        ending == Column(rows, "EndingBR")
        final == ending[Len(ending)]
        running_max == ExpandingMax(ending)
        mdd == MaxDrawdown(ending)
    IN [starting_capital |-> capital,
        final_capital |-> final,
        total_pnl |-> SeqSum(spnl),
        total_return_pct |->
            Frac((final - capital.num) * 100 * capital.den, capital.num),
        win_rate |-> WinRate(spnl),
        avg_win |-> AvgWin(spnl),
        avg_loss |-> AvgLoss(spnl),
        max_drawdown |-> mdd,
        max_drawdown_pct |->
            IF ColMax(running_max) > 0
            THEN Frac(mdd * 100, ColMax(running_max)) ELSE Float(0),
        total_trades |-> Len(rows)]

\* the 'position_sizing' group of the report
PositionMetrics(rows, ml, risk) ==
    LET size == Column(rows, "Position_Size")
    IN [max_loss_used |-> ml,
        risk_percentage |-> risk,
        max_position_size |-> ColMax(size),
        avg_position_size |-> Frac(SeqSum(size), Len(size)),
        min_position_size |-> ColMin(size)]

Report ==
    [kind |-> "dict", empty |-> FALSE,
     original |-> OriginalMetrics(original_data.rows),
     scaled |-> ScaledMetrics(scaled_data.rows, starting_capital),
     position_sizing |->
         PositionMetrics(scaled_data.rows, max_loss, risk_percentage)]

-----------------------------------------------------------------------------
(* StrategyCalculator.calculate_performance_metrics().  Without both       *)
(* frames it returns {}.  On an empty scaled frame EndingBR.iloc[-1]       *)
(* raises IndexError (the statements before it yield 0 and NaN and do not  *)
(* raise).  The calculator is not changed.                                 *)

MetricsOutcome ==
    IF IsNone(original_data) \/ IsNone(scaled_data)
    THEN [op |-> "calculate_performance_metrics", status |-> "ok",
          value |-> EmptyDict]
    ELSE IF Len(scaled_data.rows) = 0
    THEN [op |-> "calculate_performance_metrics", status |-> "IndexError",
          value |-> None]
    ELSE [op |-> "calculate_performance_metrics", status |-> "ok",
          value |-> Report]

calculate_performance_metrics ==
    /\ ret' = MetricsOutcome
    /\ UNCHANGED <<obj, lastScale, memo, session>>

-----------------------------------------------------------------------------
(* StrategyCalculator.get_weekly_data(data_type).  A date is a day number, *)
(* day 0 being a Monday.  to_period('W') is the week from Monday to Sunday *)
(* that holds the day, and start_time its Monday.  groupby keeps the weeks *)
(* that hold a row, in ascending order.  An empty frame is taken to have a *)
(* datetime Date column, so that .dt does not raise on it.                 *)

WeekOf(date) == date \div 7
WeekStart(week) == 7 * week

\* a variant: every week from the first to the last, as resample('W') gives
FilledWeeks(rows) ==
    IF Len(rows) = 0 THEN {}
    ELSE LET weeks == {WeekOf(rows[i].Date) : i \in 1..Len(rows)}
         IN SetMin(weeks) .. SetMax(weeks)

\* the groups of groupby('Week'): the weeks that hold a row
WeeksOf(rows) == {WeekOf(rows[i].Date) : i \in 1..Len(rows)}

\* the keys of the groups in ascending order
RECURSIVE Ascending(_)
Ascending(S) ==
    IF S = {} THEN <<>>
    ELSE <<SetMin(S)>> \o Ascending(S \ {SetMin(S)})

\* the values of a column in the rows of one week
WeekValues(rows, col, week) ==
    Column(SelectSeq(rows, LAMBDA r : WeekOf(r.Date) = week), col)

\* a variant: the last value of the week, as .last() gives
WeekLast(rows, col, week) ==
    LET v == WeekValues(rows, col, week)
    IN IF Len(v) = 0 THEN 0 ELSE v[Len(v)]

\* [pnl_col].sum() of one group
WeekSum(rows, col, week) == SeqSum(WeekValues(rows, col, week))

\* weekly: one row per group, with Week, the summed column and Week_Start
WeeklyRows(rows, col) ==
    LET weeks == Ascending(WeeksOf(rows))
    IN [k \in 1..Len(weeks) |->
           (col :> WeekSum(rows, col, weeks[k]))
               @@ [Week |-> weeks[k], Week_Start |-> WeekStart(weeks[k])]]

WeeklyOutcome(data_type) ==
    [op |-> "get_weekly_data", status |-> "ok", data_type |-> data_type,
     value |->
        IF data_type = "original" /\ ~IsNone(original_data)
        THEN DataFrame(WeeklyRows(original_data.rows, "PnL"))
        ELSE IF data_type = "scaled" /\ ~IsNone(scaled_data)
        THEN DataFrame(WeeklyRows(scaled_data.rows, "Scaled_PnL"))
        ELSE DataFrame(<<>>)]

get_weekly_data(data_type) ==
    /\ ret' = WeeklyOutcome(data_type)
    /\ UNCHANGED <<obj, lastScale, memo, session>>

DataTypes == {"original", "scaled", "weekly"}

-----------------------------------------------------------------------------
(* Sequences of calls on one calculator, as the application makes them on  *)
(* the calculator it keeps in its session.                                 *)

CallPnLs == {-1, 0, 1}
CallSeries == {MkData(p) : p \in SeqsUpTo(CallPnLs, MaxCallLen)}
CallCapitals == {3}
CallRisks == {Frac(1, 2), Frac(3, 2)}

Scale ==
    \E rows \in CallSeries, capital \in CallCapitals, risk \in CallRisks :
        /\ calculate_scaling(rows, capital, risk)
        /\ UNCHANGED memo

Metrics == calculate_performance_metrics

Next == Scale \/ Metrics

Spec == Init /\ [][Next]_vars

-----------------------------------------------------------------------------
(* Sequences of calculate_scaling calls on one calculator.  The first call *)
(* of the calculator may be remembered, to be compared with every later    *)
(* call that has the same arguments.                                       *)

MemoPnLs == {-2, -1, 0}
MemoSeries == {MkData(p) : p \in SeqsUpTo(MemoPnLs, MaxMemoLen)}
MemoCapitals == {3}
MemoRisks == {Frac(1, 2), Frac(3, 2)}

ScaleAndForget ==
    \E rows \in MemoSeries, capital \in MemoCapitals, risk \in MemoRisks :
        /\ calculate_scaling(rows, capital, risk)
        /\ UNCHANGED memo

ScaleAndRemember ==
    /\ IsNone(original_data)
    /\ \E rows \in MemoSeries, capital \in MemoCapitals, risk \in MemoRisks :
          /\ calculate_scaling(rows, capital, risk)
          /\ memo' = lastScale'

NextPurity == ScaleAndForget \/ ScaleAndRemember

SpecPurity == Init /\ [][NextPurity]_vars

-----------------------------------------------------------------------------
(* One scaling run on a new calculator, followed by its metrics.           *)

ScenarioPnLs == {<<10, -5, 10>>, <<1, 2>>, <<10, 5, -20, 5>>}
RunSeries ==
    {MkData(p) : p \in SeqsUpTo(-MaxPnL .. MaxPnL, MaxLen) \cup ScenarioPnLs}
RunCapitals == {3, 100}
RunRisks == {Frac(1, 10), Frac(1, 2), Frac(1, 1), Frac(3, 2)}

RunScale ==
    /\ IsNone(original_data)
    /\ \E rows \in RunSeries, capital \in RunCapitals, risk \in RunRisks :
          calculate_scaling(rows, capital, risk)
    /\ UNCHANGED memo

RunMetrics ==
    /\ ~IsNone(original_data)
    /\ calculate_performance_metrics

NextRun == RunScale \/ RunMetrics

SpecRun == Init /\ [][NextRun]_vars

-----------------------------------------------------------------------------
(* One scaling run on a new calculator, on a series with dates that repeat, *)
(* follow each other and leave weeks out, with weekly aggregations and      *)
(* metrics reports before and after it.                                    *)

\* the dates that start on first and advance by the gaps
RECURSIVE DatesFrom(_, _)
DatesFrom(first, gaps) ==
    IF Len(gaps) = 0 THEN <<first>>
    ELSE <<first>> \o DatesFrom(first + gaps[1], Tail(gaps))

MkDated(pnls, dates) ==
    [i \in 1..Len(pnls) |-> [Date |-> dates[i], PnL |-> pnls[i]]]

WeeklyPnLs == {-1, 0, 2}
FirstDays == {0, 6}
DayGaps == {0, 1, 8}
WeeklySeries ==
    {<<>>} \cup
    UNION {{MkDated(p, DatesFrom(f, g)) :
                p \in [1..n -> WeeklyPnLs], f \in FirstDays,
                g \in [1..(n - 1) -> DayGaps]} : n \in 1..MaxWeeklyLen}
WeeklyCapitals == {3}
WeeklyRisks == {Frac(3, 2)}

WeeklyScale ==
    /\ IsNone(original_data)
    /\ \E rows \in WeeklySeries, capital \in WeeklyCapitals,
          risk \in WeeklyRisks :
          calculate_scaling(rows, capital, risk)
    /\ UNCHANGED memo

Weekly == \E data_type \in DataTypes : get_weekly_data(data_type)

WeeklyMetrics == calculate_performance_metrics

NextWeekly == WeeklyScale \/ Weekly \/ WeeklyMetrics

SpecWeekly == Init /\ [][NextWeekly]_vars

-----------------------------------------------------------------------------
(* StrategyCalculator.parse_csv_data.  A line of the text holds a date and *)
(* a P&L field; a line whose P&L field is not a number is dropped, the     *)
(* rest is sorted by date, and a text that leaves no row is rejected.      *)

Line(date, pnl) == [Date |-> date, PnL |-> pnl, numeric |-> TRUE]
Junk(date) == [Date |-> date, PnL |-> 0, numeric |-> FALSE]

\* sort_values('Date'): ascending, rows of one date in their order
RECURSIVE SortByDate(_)
SortByDate(rows) ==
    IF Len(rows) = 0 THEN <<>>
    ELSE LET first == SetMin({rows[i].Date : i \in 1..Len(rows)})
             k == CHOOSE i \in 1..Len(rows) :
                      /\ rows[i].Date = first
                      /\ \A j \in 1..(i - 1) : rows[j].Date # first
         IN <<rows[k]>> \o
            SortByDate(SubSeq(rows, 1, k - 1) \o SubSeq(rows, k + 1, Len(rows)))

parse_csv_data(csv_content) ==
    LET kept == SelectSeq(csv_content.lines, LAMBDA l : l.numeric)
        clean_df == SortByDate([i \in 1..Len(kept) |->
                        [Date |-> kept[i].Date, PnL |-> kept[i].PnL]])
    IN IF Len(clean_df) = 0
       THEN [op |-> "parse_csv_data", status |-> "ValueError", value |-> None]
       ELSE [op |-> "parse_csv_data", status |-> "ok",
             value |-> DataFrame(clean_df)]

-----------------------------------------------------------------------------
(* One rerun of the application's script: main() of src/app.py, from the   *)
(* widgets to the page.  The calculator is the one kept in the session.    *)

\* bool(s) of a string or None; the texts here hold no blank lines, so that
\* s.strip() is empty exactly if s is
Truthy(s) == ~IsNone(s) /\ Len(s.lines) > 0

\* what the page shows when calculations_done is set
Results ==
    [kind |-> "results", original_data |-> original_data,
     scaled_data |-> scaled_data, metrics |-> MetricsOutcome,
     starting_capital |-> starting_capital]

\* a variant: the except branch leaves calculations_done as it was
KeptAfterError(done) == done

\* except Exception: st.session_state.calculations_done = False
DoneAfterError(done) == FALSE

\* the page: results, else the welcome text, else nothing
Page ==
    IF calculations_done THEN Results
    ELSE IF ~data_loaded THEN Welcome
    ELSE Blank

Rerun(csv_input, sample_button, sample_file, calculate_button, capital, risk) ==
    LET pending == IF sample_button /\ Truthy(sample_file)
                   THEN sample_file ELSE sample_data_loaded
        trigger == (sample_button /\ Truthy(sample_file)) \/ trigger_calculation
        data_to_use == IF Truthy(pending) THEN pending ELSE csv_input
        changed == Truthy(data_to_use) /\ data_to_use # last_csv_input
        auto_calculate == changed \/ trigger
        should_calculate == calculate_button \/ auto_calculate
        parsed == parse_csv_data(data_to_use)
    IN /\ sample_data_loaded' = IF Truthy(pending) THEN None ELSE pending
       /\ last_csv_input' = IF changed THEN data_to_use ELSE last_csv_input
       /\ trigger_calculation' = FALSE
       /\ IF should_calculate /\ Truthy(data_to_use)
          THEN IF parsed.status # "ok"
               THEN /\ data_loaded' = FALSE
                    /\ calculations_done' = DoneAfterError(calculations_done)
                    /\ ret' = parsed
                    /\ UNCHANGED <<obj, lastScale, memo>>
               ELSE /\ ScalingEffect(parsed.value.rows, capital, risk)
                    /\ IF lastScale'.status # "ok"
                       THEN /\ data_loaded' = FALSE
                            /\ calculations_done' =
                                   DoneAfterError(calculations_done)
                            /\ ret' = [op |-> "calculate_scaling",
                                       status |-> lastScale'.status,
                                       value |-> lastScale'.value]
                            /\ UNCHANGED memo
                       ELSE /\ ret' = MetricsOutcome'
                            /\ memo' = IF ret'.status = "ok"
                                       THEN lastScale' ELSE memo
                            /\ data_loaded' =
                                   IF ret'.status = "ok" THEN TRUE ELSE FALSE
                            /\ calculations_done' =
                                   IF ret'.status = "ok" THEN TRUE
                                   ELSE DoneAfterError(calculations_done)
          ELSE /\ UNCHANGED <<obj, lastScale, memo, data_loaded,
                              calculations_done>>
               /\ ret' = IF calculations_done THEN MetricsOutcome ELSE ret
       /\ displayed' = Page'

\* the text area: empty, no numeric row, a series with a loss (out of
\* order, with a row to drop), a series without a loss
AppTexts ==
    {Str(<<>>), Str(<<Junk(1)>>),
     Str(<<Line(2, -1), Junk(3), Line(1, 1)>>), Str(<<Line(1, 0)>>)}
\* the sample button and what load_sample_data() returns when it is pressed
SampleClicks ==
    {[button |-> FALSE, file |-> None], [button |-> TRUE, file |-> None],
     [button |-> TRUE, file |-> Str(<<Line(1, -2), Line(2, 2)>>)]}
\* the two number inputs: starting capital and risk (percent / 100)
AppParameters ==
    {[capital |-> 3, risk |-> Frac(1, 2)], [capital |-> 4, risk |-> Frac(1, 1)]}

Rerunning ==
    \E csv_input \in AppTexts, sample \in SampleClicks,
       calculate_button \in BOOLEAN, widgets \in AppParameters :
        Rerun(csv_input, sample.button, sample.file, calculate_button,
              widgets.capital, widgets.risk)

NextApp == Rerunning

SpecApp == Init /\ [][NextApp]_vars

-----------------------------------------------------------------------------
(* Properties.  A run is the most recent calculate_scaling call; it        *)
(* succeeded when it returned a frame.                                     *)

Called == lastScale.kind = "call"
Succeeded == Called /\ lastScale.status = "ok"
Failed == Called /\ lastScale.status # "ok"
Reported ==
    /\ ret.op = "calculate_performance_metrics"
    /\ ret.status = "ok"
    /\ ~ret.value.empty

\* the P&L values handed to the run, and the rows it returned
RunPnL == Column(lastScale.data, "PnL")
RunRows == lastScale.value.rows

\* p is the mathematical floor of x / y, for y > 0
IsFloorOf(p, x, y) == p * y <= x /\ x < (p + 1) * y

\* C1: on every day of a successful run the position size is the floor of
\* (starting balance * risk fraction) / max_loss, max_loss being the absolute
\* value of the least P&L of the run's own input series, whatever the sign
\* of the balance.
C1_PositionSizeIsFloor ==
    (Succeeded /\ Len(RunRows) > 0) =>
        LET least == CHOOSE v \in {RunPnL[k] : k \in 1..Len(RunPnL)} :
                         \A k \in 1..Len(RunPnL) : v <= RunPnL[k]
        IN \A i \in 1..Len(RunRows) :
               IsFloorOf(RunRows[i].Position_Size,
                         RunRows[i].StartingBR * lastScale.risk.num,
                         lastScale.risk.den * Abs(least))

\* C1 witness: a successful run with a day entered on a negative balance
\* whose quotient is not an integer (floor and truncation differ).
C1_Witness ==
    /\ Succeeded
    /\ \E i \in 1..Len(RunRows) :
          /\ RunRows[i].StartingBR < 0
          /\ (RunRows[i].StartingBR * lastScale.risk.num)
                 % (lastScale.risk.den * max_loss.num) # 0
          /\ RunRows[i].Position_Size < 0

\* C1 witness of the zero balance: a successful run with a day entered on 0.
C1_WitnessZero ==
    /\ Succeeded
    /\ \E i \in 1..Len(RunRows) :
          RunRows[i].StartingBR = 0 /\ RunRows[i].Position_Size = 0

\* C2: the first day starts on starting_capital, each day ends on its
\* starting balance plus its scaled P&L, the scaled P&L is the day's P&L times
\* its position size, and each day starts where the day before ended.
C2_ChainContinuity ==
    Succeeded =>
        /\ Len(RunRows) = Len(RunPnL)
        /\ Len(RunRows) > 0 => RunRows[1].StartingBR = lastScale.capital
        /\ \A i \in 1..Len(RunRows) :
              /\ RunRows[i].EndingBR
                     = RunRows[i].StartingBR + RunRows[i].Scaled_PnL
              /\ RunRows[i].Scaled_PnL = RunPnL[i] * RunRows[i].Position_Size
        /\ \A i \in 1..(Len(RunRows) - 1) :
              RunRows[i + 1].StartingBR = RunRows[i].EndingBR

\* C2 witness: a successful run of three days that each change the balance.
C2_Witness ==
    /\ Succeeded
    /\ Len(RunRows) = 3
    /\ \A i \in 1..3 : RunRows[i].Scaled_PnL # 0
    /\ RunRows[2].StartingBR # lastScale.capital
    /\ RunRows[3].StartingBR # RunRows[2].StartingBR

\* C3: after a successful run every day's cumulative_pnl is its ending
\* balance minus the run's starting_capital, and in the metrics report of the
\* run the scaled total_pnl (the sum of scaled_pnl) equals final_capital
\* minus starting_capital and equals the last day's cumulative_pnl.
C3_BookkeepingCloses ==
    Succeeded =>
        /\ \A i \in 1..Len(RunRows) :
              RunRows[i].Cumulative_PnL
                  = RunRows[i].EndingBR - lastScale.capital
        /\ Reported =>
              /\ ret.value.scaled.total_pnl
                     = ret.value.scaled.final_capital - lastScale.capital
              /\ ret.value.scaled.total_pnl
                     = RunRows[Len(RunRows)].Cumulative_PnL

\* C3 witness: the report of a successful run of three days with gains and
\* losses, ending away from the starting capital.
C3_Witness ==
    /\ Succeeded
    /\ Reported
    /\ Len(RunRows) = 3
    /\ \E i \in 1..3 : RunRows[i].Scaled_PnL > 0
    /\ \E i \in 1..3 : RunRows[i].Scaled_PnL < 0
    /\ ret.value.scaled.total_pnl # 0
    /\ RunRows[2].Cumulative_PnL # RunRows[2].Scaled_PnL

\* C4: scaling a series that is not empty and has no losing day (every P&L
\* >= 0) fails and returns no scaled series.
C4_NoLossFails ==
    (Called /\ Len(RunPnL) > 0 /\ \A i \in 1..Len(RunPnL) : RunPnL[i] >= 0) =>
        (lastScale.status = "ValueError" /\ IsNone(lastScale.value))

\* C5: scaling an empty series fails instead of returning a scaled series.
C5_EmptyFails ==
    (Called /\ Len(RunPnL) = 0) =>
        (lastScale.status # "ok" /\ IsNone(lastScale.value))

\* C6: when the most recent calculate_scaling call failed,
\* calculate_performance_metrics yields no report.
C6_NoReportAfterFailure ==
    (Failed /\ ret.op = "calculate_performance_metrics") => ~Reported

\* C7: a calculate_scaling call returns what the calculator's first call
\* returned for the same series, starting capital and risk fraction (the same
\* frame, or the same failure), whatever calls were made in between.
C7_ScalingIsPure ==
    (Called /\ memo.kind = "call"
        /\ memo.data = lastScale.data
        /\ memo.capital = lastScale.capital
        /\ memo.risk = lastScale.risk) =>
            (lastScale.status = memo.status /\ lastScale.value = memo.value)

\* C7 witness: a successful call that repeats the arguments of the first
\* call, made on a calculator that a call with another series (successful,
\* with another max_loss) has used in between.
C7_Witness ==
    /\ Succeeded
    /\ memo.kind = "call"
    /\ memo.data = lastScale.data
    /\ memo.capital = lastScale.capital
    /\ memo.risk = lastScale.risk
    /\ IsNone(memo.prev_max_loss)
    /\ Len(RunRows) > 0
    /\ IsFloat(lastScale.prev_max_loss)
    /\ lastScale.prev_max_loss.num # 0
    /\ lastScale.prev_max_loss # max_loss
    /\ lastScale.value = memo.value

\* C8: in every report the max_drawdown of the original curve and that of
\* the scaled curve are <= 0.
C8_DrawdownNonPositive ==
    Reported =>
        /\ ret.value.original.max_drawdown <= 0
        /\ ret.value.scaled.max_drawdown <= 0

\* C8 witness: a report in which both curves have fallen below a peak.
C8_Witness ==
    /\ Succeeded
    /\ Reported
    /\ ret.value.original.max_drawdown < 0
    /\ ret.value.scaled.max_drawdown < 0

\* the cumulative P&L of the run's input up to and including day i
CumulativeTo(i) == SeqSum(SubSeq(RunPnL, 1, i))

\* C9: the original max_drawdown is the least, over the days i, of the
\* cumulative P&L of day i minus the greatest cumulative P&L of the days
\* 1..i (no zero baseline before day 1); for [+10,+5,-20,+5] it is -20.
C9_OriginalDrawdown ==
    (Succeeded /\ Reported) =>
        /\ \E i \in 1..Len(RunPnL) :
              \E j \in 1..i :
                  /\ ret.value.original.max_drawdown
                         = CumulativeTo(i) - CumulativeTo(j)
                  /\ \A k \in 1..i : CumulativeTo(k) <= CumulativeTo(j)
        /\ \A i \in 1..Len(RunPnL) :
              \E j \in 1..i :
                  /\ \A k \in 1..i : CumulativeTo(k) <= CumulativeTo(j)
                  /\ ret.value.original.max_drawdown
                         <= CumulativeTo(i) - CumulativeTo(j)
        /\ RunPnL = <<10, 5, -20, 5>> =>
              ret.value.original.max_drawdown = -20

\* C9 witness: the report of the series [+10,+5,-20,+5].
C9_Witness ==
    /\ Succeeded
    /\ Reported
    /\ RunPnL = <<10, 5, -20, 5>>
    /\ ret.value.original.max_drawdown = -20

\* C9 witness of the baseline: a report of a series that never rises above
\* its first day's loss, whose drawdown is 0 while its curve is below 0.
C9_WitnessBaseline ==
    /\ Succeeded
    /\ Reported
    /\ RunPnL[1] < 0
    /\ ret.value.original.max_drawdown = 0

\* the days of a column that are wins, and those that are losses
WinDays(s) == {i \in 1..Len(s) : s[i] > 0}
LossDays(s) == {i \in 1..Len(s) : s[i] < 0}

\* the sum of a column over a set of its days
RECURSIVE SumOver(_, _)
SumOver(s, days) ==
    IF days = {} THEN 0
    ELSE LET d == CHOOSE d \in days : TRUE
         IN s[d] + SumOver(s, days \ {d})

\* the value of the fraction f is n / d, for d > 0
IsQuotient(f, n, d) == f.den > 0 /\ f.num * d = n * f.den

\* the win and loss figures m of a report are those of the column s
WinLossFigures(m, s) ==
    /\ IsQuotient(m.win_rate, Cardinality(WinDays(s)), Len(s))
    /\ 0 <= m.win_rate.num /\ m.win_rate.num <= m.win_rate.den
    /\ IF WinDays(s) = {} THEN m.avg_win.num = 0
       ELSE /\ IsQuotient(m.avg_win, SumOver(s, WinDays(s)),
                          Cardinality(WinDays(s)))
            /\ m.avg_win.num > 0
    /\ IF LossDays(s) = {} THEN m.avg_loss.num = 0
       ELSE /\ IsQuotient(m.avg_loss, SumOver(s, LossDays(s)),
                          Cardinality(LossDays(s)))
            /\ m.avg_loss.num < 0

\* C10: for the original and for the scaled series, win_rate is the number
\* of days with a value > 0 over the number of all days and lies in [0,1],
\* avg_win is the mean of the positive values or 0 without any, avg_loss is
\* the mean of the negative values or 0 without any; a day of value 0 is
\* neither a win nor a loss.
C10_WinLossFigures ==
    (Succeeded /\ Reported) =>
        /\ WinLossFigures(ret.value.original, RunPnL)
        /\ WinLossFigures(ret.value.scaled, Column(RunRows, "Scaled_PnL"))

\* C10 witness: a report of a series with a win, a loss and a day of P&L 0,
\* scaled with position sizes other than 0.
C10_Witness ==
    /\ Succeeded
    /\ Reported
    /\ \E i, j, k \in 1..Len(RunPnL) :
          /\ RunPnL[i] > 0 /\ RunRows[i].Scaled_PnL > 0
          /\ RunPnL[j] < 0 /\ RunRows[j].Scaled_PnL < 0
          /\ RunPnL[k] = 0 /\ RunRows[k].Position_Size # 0

\* C13: the run of [+10,-5,+10] with starting_capital 100 and risk
\* fraction 0.10 uses max_loss 5, position sizes 2,2,2 and ending balances
\* 120,110,130, and its report has final_capital 130 and total_return_pct
\* 30; in every report final_capital is the last day's ending balance and
\* total_return_pct is (final_capital - starting_capital) /
\* starting_capital * 100.
C13_ScenarioOne ==
    /\ (Succeeded /\ RunPnL = <<10, -5, 10>> /\ lastScale.capital = 100
            /\ lastScale.risk = Frac(1, 10)) =>
          /\ max_loss = Float(5)
          /\ Column(RunRows, "Position_Size") = <<2, 2, 2>>
          /\ Column(RunRows, "EndingBR") = <<120, 110, 130>>
          /\ Reported =>
                /\ ret.value.scaled.final_capital = 130
                /\ IsQuotient(ret.value.scaled.total_return_pct, 30, 1)
    /\ (Succeeded /\ Reported) =>
          /\ ret.value.scaled.final_capital = RunRows[Len(RunRows)].EndingBR
          /\ IsQuotient(ret.value.scaled.total_return_pct,
                        (ret.value.scaled.final_capital - lastScale.capital)
                            * 100,
                        lastScale.capital)

\* C13 witness: the report of that run.
C13_Witness ==
    /\ Succeeded
    /\ Reported
    /\ RunPnL = <<10, -5, 10>>
    /\ lastScale.capital = 100
    /\ lastScale.risk = Frac(1, 10)
    /\ ret.value.scaled.final_capital = 130
    /\ ret.value.position_sizing.max_loss_used = Float(5)

\* the run's starting capital is > 0 and its risk fraction is in (0, 1]
WithinLimits ==
    /\ lastScale.capital > 0
    /\ 0 < lastScale.risk.num
    /\ lastScale.risk.num <= lastScale.risk.den

\* C14: in a run with starting_capital > 0 and 0 < risk fraction <= 1 the
\* position size of every day is >= 0, and so is min_position_size in the
\* report.
C14_PositionSizeNonNegative ==
    (Succeeded /\ WithinLimits) =>
        /\ \A i \in 1..Len(RunRows) : RunRows[i].Position_Size >= 0
        /\ Reported => ret.value.position_sizing.min_position_size >= 0

\* C14 witness: the report of such a run at full risk that loses its whole
\* balance on a day and has position size 0 from then on.
C14_Witness ==
    /\ Succeeded
    /\ Reported
    /\ WithinLimits
    /\ lastScale.risk.num = lastScale.risk.den
    /\ \E i \in 1..Len(RunRows) :
          RunRows[i].Position_Size > 0 /\ RunRows[i].EndingBR = 0
    /\ ret.value.position_sizing.min_position_size = 0

C18_RiskBound ==
    (Succeeded /\ WithinLimits) =>
        \A i \in 1..Len(RunRows) :
            /\ RunRows[i].Scaled_PnL * lastScale.risk.den
                   >= -(lastScale.risk.num * RunRows[i].StartingBR)
            /\ RunRows[i].StartingBR >= 0
            /\ RunRows[i].EndingBR >= 0

\* C18 witness: such a run at a risk fraction below 1 with a day that loses
\* exactly the risk fraction of its starting balance.
C18_Witness ==
    /\ Succeeded
    /\ WithinLimits
    /\ lastScale.risk.num < lastScale.risk.den
    /\ \E i \in 1..Len(RunRows) :
          /\ RunRows[i].Scaled_PnL < 0
          /\ RunRows[i].Scaled_PnL * lastScale.risk.den
                 = -(lastScale.risk.num * RunRows[i].StartingBR)

\* C19: within a run, once a day has position size 0 (its balance times the
\* risk fraction is below max_loss), every later day has position size 0 and
\* scaled P&L 0 and ends on the same balance.
C19_ZeroSizeAbsorbs ==
    Succeeded =>
        \A i \in 1..Len(RunRows) :
            RunRows[i].Position_Size = 0 =>
                /\ RunRows[i].StartingBR * lastScale.risk.num
                       < lastScale.risk.den * max_loss.num
                /\ \A j \in i..Len(RunRows) :
                      /\ RunRows[j].Position_Size = 0
                      /\ RunRows[j].Scaled_PnL = 0
                      /\ RunRows[j].EndingBR = RunRows[i].StartingBR

\* C19 witness: a run that trades on its first day, has position size 0 on
\* its second, and a third day whose P&L is not 0.
C19_Witness ==
    /\ Succeeded
    /\ Len(RunRows) = 3
    /\ RunRows[1].Position_Size > 0
    /\ RunRows[2].Position_Size = 0
    /\ RunPnL[2] # 0
    /\ RunPnL[3] # 0
    /\ RunRows[3].EndingBR = RunRows[2].StartingBR

\* the series a weekly table was asked for, its column, and the table
WeeklyReturned ==
    /\ ret.op = "get_weekly_data"
    /\ ret.status = "ok"
    /\ \/ ret.data_type = "original" /\ ~IsNone(original_data)
       \/ ret.data_type = "scaled" /\ ~IsNone(scaled_data)
WeeklySource ==
    IF ret.data_type = "original" THEN original_data.rows ELSE scaled_data.rows
WeeklyColumn == IF ret.data_type = "original" THEN "PnL" ELSE "Scaled_PnL"
WeeklyTable == ret.value.rows

\* the rows of the weekly table whose week holds a date
BucketsOf(date) ==
    {k \in 1..Len(WeeklyTable) :
        /\ WeeklyTable[k].Week_Start <= date
        /\ date < WeeklyTable[k].Week_Start + 7}

\* C11: each day of the series falls into exactly one row of the weekly
\* table, and the weekly sums add up to the sum of the per-day values.
C11_WeeklyConservesTotal ==
    WeeklyReturned =>
        /\ \A i \in 1..Len(WeeklySource) :
              Cardinality(BucketsOf(WeeklySource[i].Date)) = 1
        /\ SumOver(Column(WeeklyTable, WeeklyColumn), 1..Len(WeeklyTable))
               = SumOver(Column(WeeklySource, WeeklyColumn),
                         1..Len(WeeklySource))

\* C11 witness: the weekly table of a scaled series with two weeks, one of
\* them holding two days of different scaled P&L, neither 0.
C11_Witness ==
    /\ WeeklyReturned
    /\ ret.data_type = "scaled"
    /\ Len(WeeklyTable) = 2
    /\ \E i, j \in 1..Len(WeeklySource) :
          /\ i # j
          /\ BucketsOf(WeeklySource[i].Date) = BucketsOf(WeeklySource[j].Date)
          /\ WeeklySource[i].Scaled_PnL # 0
          /\ WeeklySource[j].Scaled_PnL # 0
          /\ WeeklySource[i].Scaled_PnL # WeeklySource[j].Scaled_PnL

\* C12: the weekly table has a row for every week, Monday to Sunday, that
\* holds a trading day, no row for a week that holds none, and its rows are
\* in strictly ascending order of Week_Start (so no week has two rows).
C12_OneRowPerTradedWeek ==
    WeeklyReturned =>
        /\ \A i \in 1..Len(WeeklySource) :
              BucketsOf(WeeklySource[i].Date) # {}
        /\ \A k \in 1..Len(WeeklyTable) :
              /\ WeeklyTable[k].Week_Start % 7 = 0
              /\ \E i \in 1..Len(WeeklySource) : k \in BucketsOf(WeeklySource[i].Date)
        /\ \A k \in 1..(Len(WeeklyTable) - 1) :
              WeeklyTable[k].Week_Start < WeeklyTable[k + 1].Week_Start

\* C12 witness: a weekly table of two rows with a week without trading days
\* between them.
C12_Witness ==
    /\ WeeklyReturned
    /\ Len(WeeklyTable) = 2
    /\ WeeklyTable[2].Week_Start = WeeklyTable[1].Week_Start + 14
    /\ Len(WeeklySource) = 3

\* C15: while the original or the scaled series is absent, a call of
\* calculate_performance_metrics returns an empty report and a call of
\* get_weekly_data returns an empty table; neither raises, neither changes
\* the calculator.
C15_AbsentSeriesGiveEmpty ==
    [][(IsNone(original_data) \/ IsNone(scaled_data)) =>
          /\ ret'.op = "calculate_performance_metrics" =>
                /\ ret'.status = "ok"
                /\ ret'.value = EmptyDict
                /\ obj' = obj
          /\ ret'.op = "get_weekly_data" =>
                /\ ret'.status = "ok"
                /\ Len(ret'.value.rows) = 0
                /\ obj' = obj]_vars

\* C20: whenever a scaled series is stored, it is the scaling of the stored
\* original series: the same days with the same P&L, scaled with the stored
\* starting_capital and risk_percentage and with the stored max_loss, which
\* is the largest loss of the stored original series.
C20_StoredRunsPaired ==
    ~IsNone(scaled_data) =>
        /\ ~IsNone(original_data)
        /\ Len(scaled_data.rows) = Len(original_data.rows)
        /\ \A i \in 1..Len(scaled_data.rows) :
              /\ scaled_data.rows[i].Date = original_data.rows[i].Date
              /\ scaled_data.rows[i].PnL = original_data.rows[i].PnL
        /\ max_loss = MaxLossOf(original_data.rows)
        /\ ~MaxLossIsZero(max_loss)
        /\ scaled_data.rows = ScaledRows(original_data.rows,
                                         starting_capital.num,
                                         risk_percentage, max_loss)

\* C17: after every rerun the page shows results exactly while
\* calculations_done is set, and the results shown (original series, scaled
\* series, starting capital, and the risk and largest loss behind the
\* report) are those of the most recent computation that succeeded; when the
\* most recent computation failed, calculations_done and data_loaded are
\* unset and no results are shown.
C17_PageShowsLastSuccess ==
    /\ (displayed.kind = "results") <=> calculations_done
    /\ displayed.kind = "results" =>
          /\ memo.kind = "call"
          /\ memo.status = "ok"
          /\ displayed.original_data = DataFrame(memo.data)
          /\ displayed.scaled_data = memo.value
          /\ displayed.starting_capital = Float(memo.capital)
          /\ risk_percentage = memo.risk
          /\ max_loss = MaxLossOf(memo.data)
          /\ displayed.metrics = MetricsOutcome
          /\ displayed.metrics.status = "ok"
          /\ lastScale = memo
    /\ (ret.status # "ok" /\ ret.status # "none") =>
          /\ ~calculations_done
          /\ ~data_loaded
          /\ displayed.kind # "results"

\* C17 witness: results on the page from a computation that succeeded right
\* after a failed one, on a pasted text that was out of order and held a row
\* to drop.
C17_Witness ==
    /\ displayed.kind = "results"
    /\ MaxLossIsZero(memo.prev_max_loss)
    /\ displayed.original_data.rows =
           <<[Date |-> 1, PnL |-> 1], [Date |-> 2, PnL |-> -1]>>
    /\ ~IsNone(memo.prev_max_loss)

\* C17 witness: a failed computation after a successful one, the scaled
\* series of the earlier run still in the calculator and nothing shown.
C17_WitnessFailure ==
    /\ ret.status = "ValueError"
    /\ ret.op = "calculate_scaling"
    /\ ~IsNone(scaled_data)
    /\ ~calculations_done
    /\ displayed.kind = "welcome"

====
